---- MODULE Spec2Model ----
(***************************************************************************)
(* A model of the two streaming primitives of the go-tfe client:           *)
(*   - the event subscription of event.go (Subscribe, the delivery         *)
(*     goroutine, C() and Close()), over a websocket connection whose far  *)
(*     end is the environment;                                             *)
(*   - the log reader that plans.Logs of plan.go constructs, polling a     *)
(*     growing remote log until the plan reaches a terminal status.        *)
(***************************************************************************)
EXTENDS Naturals, Sequences, FiniteSets

\* ------------------------------------------------------------------ bounds
\* Frames the server pushes on one connection.
MaxFrames == 3
\* Close() calls a caller makes on one subscription.
MaxCloseCalls == 2
\* Bytes the plan writes to its log.
MaxLog == 3
\* Bytes one fetch returns at most (the caller's buffer).
MaxChunk == 2
\* Answers of false that done() gives within one read.
MaxPolls == 3
\* Operations of the API a caller invokes.
MaxCalls == 2
\* Frames the server pushes on each connection when there are two.
MaxPairFrames == 1
\* Close() calls on each subscription when there are two.
MaxPairCloses == 1

\* --------------------------------------------------------------- constants
\* event.go:11-25 (a subset of the lifecycle tags, and the error marker)
EventRunCreated == "run_created"
EventPlanQueued == "plan_queued"
EventError == "error"

\* event.go:12-24: the thirteen tags.
EventTypes == {"organization_created", "organization_deleted", "workspace_created",
               "workspace_deleted", EventRunCreated, "run_completed", "run_canceled",
               "run_applied", "run_planned", "run_planned_and_finished",
               EventPlanQueued, "apply_queued", EventError}

\* Type strings an inbound frame may carry: json.Unmarshal into EventType (a
\* string type, event.go:27) accepts any string, so also one outside the tags.
FrameTypes == {EventRunCreated, EventPlanQueued, EventError, "bogus"}

\* An inbound websocket message: either a JSON object with a type and a
\* payload, or bytes that are not JSON.
NotJSON == [json |-> FALSE, type |-> "", payload |-> ""]
Frames == {[json |-> TRUE, type |-> t, payload |-> "p"] : t \in FrameTypes} \cup {NotJSON}

\* plan.go:40-50
PlanCanceled == "canceled"
PlanCreated == "created"
PlanErrored == "errored"
PlanFinished == "finished"
PlanMFAWaiting == "mfa_waiting"
PlanPending == "pending"
PlanQueued == "queued"
PlanRunning == "running"
PlanUnreachable == "unreachable"

PlanStatuses == {PlanCanceled, PlanCreated, PlanErrored, PlanFinished, PlanMFAWaiting,
                 PlanPending, PlanQueued, PlanRunning, PlanUnreachable}

\* What the service may put in the status field: the statuses above, and one
\* the client has no constant for.
ServiceStatuses == PlanStatuses \cup {"policy_checking"}

\* The statuses after which the service changes neither the plan nor its log.
FinalStatuses == {PlanCanceled, PlanErrored, PlanFinished, PlanUnreachable}

\* Fetch attempts one read makes before a transient failure is surfaced.
MaxAttempts == 3

VARIABLES
    \* ---- the subscription (event.go)
    subRet,      \* what Subscribe returned: NotCalled, or [sub, err] with "nil" for nil
    dials,       \* calls of websocket.DefaultDialer.Dial
    dialErr,     \* the last Dial returned an error
    conn,        \* the *websocket.Conn: "none", "open", "released" (c.Close() ran)
    closeSent,   \* a close frame has been written on conn
    wire,        \* frames the server sent that ReadMessage has not returned yet
    peer,        \* the far end: "up", "closed" (answered the close frame), "failed"
    sent,        \* number of frames the server has pushed
    taskPc,      \* the delivery goroutine: "none", "read", "send", "sendErr", "return", "done"
    taskEv,      \* the Event the goroutine is blocked sending on ch
    chMade,      \* ch := make(chan Event) has run
    closeRes,    \* the results of the Close() calls so far, in order
    \* ---- history of the subscription (not program state)
    decoded,     \* the events of the frames read and decoded successfully, in order
    received,    \* the events the consumer received from C(), in order
    synth,       \* error events the goroutine synthesized (line 73 or 79)
    afterClose,  \* events received from C() after a Close() returned
    subLog,      \* "close_frame", "failure", "released", in the order they happened
    \* ---- the plan and its log on the service
    planStatus,  \* Plan.Status as the service holds it
    log,         \* the bytes of the log so far
    \* ---- the log reader (constructed at plan.go:134-139)
    cancelled,   \* ctx is done
    rdPc,        \* "idle", "fetch", "check", "wait", "eof", "failed"
    offset,      \* the read offset
    finalFetch,  \* done() answered true in this read: the next fetch is the last
    attempts,    \* transient fetch failures in this read
    polls,       \* consecutive empty fetches in this read
    rdRes,       \* what the last read returned: "none", "data", "eof", "err", "cancelled"
    \* ---- history of the reader (not program state)
    returned,       \* the bytes the reads returned, concatenated
    logAtFinal,     \* the log when the plan reached a final status
    saidDone,       \* done() has answered true
    emptyAfterDone, \* a fetch after that answer returned no bytes
    retried,        \* a fetch was retried after a transient failure
    lastFetch,      \* how the last fetch of this read ended: "none", "ok", "transient", "fatal"
    lastDone,       \* the last call of done(): the status it read, and its two results
    \* ---- the API client (newRequest and do), as plans.Logs and the Runs
    \* ---- operations use it
    calls,       \* operations the caller has invoked
    built,       \* requests built by client.newRequest
    sentReqs,    \* requests handed to client.do
    lastReq,     \* the last request built: its method, path and context
    apiRet,      \* the last operation: its name, its inputs and what it returned
    doneFor,     \* the plan IDs for which plans.Logs has built a done closure
    \* ---- two callers of Subscribe at once
    pRet,        \* per caller, what Subscribe returned: the subscription's conn and ch
    pConn,       \* the connections Dial has made: state, wire, peer, closeSent, sent
    pTask,       \* per caller, the goroutine its Subscribe started: pc, its c, its ch, its event
    pChan,       \* per channel, the events received from it, in order
    pCloseRes    \* per caller, the results of its Close() calls

subVars == <<subRet, dials, dialErr, conn, closeSent, wire, peer, sent, taskPc, taskEv,
             chMade, closeRes, decoded, received, synth, afterClose, subLog>>

logVars == <<planStatus, log, cancelled, rdPc, offset, finalFetch, attempts, polls,
             rdRes, returned, logAtFinal, saidDone, emptyAfterDone, retried,
             lastFetch, lastDone>>

apiVars == <<calls, built, sentReqs, lastReq, apiRet, doneFor>>

pairVars == <<pRet, pConn, pTask, pChan, pCloseRes>>

vars == <<subVars, logVars, apiVars, pairVars>>

NotCalled == [sub |-> "none", err |-> "none"]

NoEvent == [Type |-> "", Payload |-> ""]

\* The decoding with a field tag that matches no key of the message: Type
\* keeps its zero value.
UnmarshalLosingType(msg) ==
    IF msg.json
    THEN [err |-> FALSE, ev |-> [Type |-> "", Payload |-> msg.payload]]
    ELSE [err |-> TRUE, ev |-> NoEvent]

\* json.Unmarshal(msg, &ev) into Event{Type, Payload}
Unmarshal(msg) ==
    IF msg.json
    THEN [err |-> FALSE, ev |-> [Type |-> msg.type, Payload |-> msg.payload]]
    ELSE [err |-> TRUE, ev |-> NoEvent]

ReadErrorEvent == [Type |-> EventError, Payload |-> "websocket read error"]
DecodeErrorEvent == [Type |-> EventError, Payload |-> "websocket decode error"]

\* No call of done() yet.
NotAsked == [status |-> "", read |-> FALSE, done |-> FALSE, err |-> FALSE]

LogIdle ==
    /\ planStatus = PlanCreated
    /\ log = <<>>
    /\ cancelled = FALSE
    /\ rdPc = "idle"
    /\ offset = 0
    /\ finalFetch = FALSE
    /\ attempts = 0
    /\ polls = 0
    /\ rdRes = "none"
    /\ returned = <<>>
    /\ logAtFinal = <<>>
    /\ saidDone = FALSE
    /\ emptyAfterDone = FALSE
    /\ retried = FALSE
    /\ lastFetch = "none"
    /\ lastDone = NotAsked

\* ------------------------------------------------ identifiers and resources
\* A Go string is a sequence of characters; a *string is <<>> for nil and
\* <<str>> for the address of str.

Lower == {"a", "b", "c", "d", "e", "f", "g", "h", "i", "j", "k", "l", "m",
          "n", "o", "p", "q", "r", "s", "t", "u", "v", "w", "x", "y", "z"}
Upper == {"A", "B", "C", "D", "E", "F", "G", "H", "I", "J", "K", "L", "M",
          "N", "O", "P", "Q", "R", "S", "T", "U", "V", "W", "X", "Y", "Z"}
Digits == {"0", "1", "2", "3", "4", "5", "6", "7", "8", "9"}

\* The character class of reStringID.
IDChars == Lower \cup Upper \cup Digits \cup {"-", ".", "_"}

\* reStringID.MatchString: ^[a-zA-Z0-9\-\._]+$
MatchStringID(str) == Len(str) > 0 /\ \A i \in 1..Len(str) : str[i] \in IDChars

\* validStringID(v *string)
validStringID(v) == v # <<>> /\ MatchStringID(v[1])

\* The identifiers a caller passes: the empty string, two well-formed ones,
\* one with a slash and one with a space.
IDs == {<<>>, <<"r", "u", "n", "-", "1">>, <<"P", "_", "2", ".", "b">>,
        <<"r", "/", "1">>, <<"r", " ">>}

\* url.QueryEscape: letters, digits, '-', '_', '.', '~' are kept, a space
\* becomes '+', any other byte becomes %XX.
PercentCode == [c \in {"/"} |-> <<"%", "2", "F">>]

EscapeChar(c) ==
    IF c \in IDChars \cup {"~"} THEN <<c>>
    ELSE IF c = " " THEN <<"+">>
    ELSE PercentCode[c]

RECURSIVE QueryEscape(_)
QueryEscape(str) ==
    IF str = <<>> THEN <<>> ELSE EscapeChar(Head(str)) \o QueryEscape(Tail(str))

\* The contexts a caller passes.
Ctxs == {"ctx1", "ctx2"}

\* What the service may hold in a plan's log-read-url.
RawURLs == {"", "https://archivist.tfe/v1/object/dmF1", "/v1/object/dmF1",
            "://archivist.tfe", "https://archivist.tfe/%zz"}

NoURL == [Scheme |-> "", Host |-> "", Path |-> ""]

\* url.Parse on these strings: the empty string parses to the empty URL, a
\* string without a scheme before "://" and a bad percent escape are errors.
ParseURL(raw) ==
    CASE raw = "" -> [err |-> FALSE, url |-> NoURL]
      [] raw = "https://archivist.tfe/v1/object/dmF1" ->
            [err |-> FALSE,
             url |-> [Scheme |-> "https", Host |-> "archivist.tfe",
                      Path |-> "/v1/object/dmF1"]]
      [] raw = "/v1/object/dmF1" ->
            [err |-> FALSE,
             url |-> [Scheme |-> "", Host |-> "", Path |-> "/v1/object/dmF1"]]
      [] raw = "://archivist.tfe" -> [err |-> TRUE, url |-> NoURL]
      [] raw = "https://archivist.tfe/%zz" -> [err |-> TRUE, url |-> NoURL]

NoRequest == [method |-> "", path |-> <<>>, ctx |-> ""]

\* A done closure is known by what it captured: the plan's ID and ctx.
NoDone == [id |-> <<>>, ctx |-> ""]

NoReader == [logURL |-> NoURL, ctx |-> "", done |-> NoDone]

\* No operation yet.
NoCall == [op |-> "", id |-> <<>>, ctx |-> "", outcome |-> "", url |-> "",
           err |-> "", reader |-> NoReader, done |-> FALSE]

ApiIdle ==
    /\ calls = 0
    /\ built = 0
    /\ sentReqs = 0
    /\ lastReq = NoRequest
    /\ apiRet = NoCall
    /\ doneFor = {}


\* The callers that subscribe at the same time.
Subs == {"s1", "s2"}

\* The connections Dial can return and the channels make can return: one of
\* each for every caller is enough.
ConnIds == {"conn1", "conn2"}
ChanIds == {"chan1", "chan2"}

NoSub == [sub |-> "none", err |-> "none", conn |-> "", ch |-> ""]
NoConn == [state |-> "none", wire |-> <<>>, peer |-> "up", closeSent |-> FALSE, sent |-> 0]
NoTask == [pc |-> "none", c |-> "", ch |-> "", ev |-> NoEvent]
NoChan == [made |-> FALSE, received |-> <<>>]

PairIdle ==
    /\ pRet = [i \in Subs |-> NoSub]
    /\ pConn = [c \in ConnIds |-> NoConn]
    /\ pTask = [i \in Subs |-> NoTask]
    /\ pChan = [h \in ChanIds |-> NoChan]
    /\ pCloseRes = [i \in Subs |-> <<>>]

SubIdle ==
    /\ subRet = NotCalled
    /\ dials = 0
    /\ dialErr = FALSE
    /\ conn = "none"
    /\ closeSent = FALSE
    /\ wire = <<>>
    /\ peer = "up"
    /\ sent = 0
    /\ taskPc = "none"
    /\ taskEv = NoEvent
    /\ chMade = FALSE
    /\ closeRes = <<>>
    /\ decoded = <<>>
    /\ received = <<>>
    /\ synth = 0
    /\ afterClose = 0
    /\ subLog = <<>>

\* Subscribe without the early return of lines 61-63: the channel and the
\* goroutine are made whatever Dial returned.
SubscribeIgnoringDialError(dialOk) ==
    /\ subRet = NotCalled
    /\ dials' = dials + 1
    /\ dialErr' = ~dialOk
    /\ conn' = "open"
    /\ chMade' = TRUE
    /\ taskPc' = "read"
    /\ subRet' = [sub |-> "sub", err |-> IF dialOk THEN "nil" ELSE "err"]
    /\ UNCHANGED <<apiVars, pairVars, logVars, closeSent, wire, peer, sent, taskEv, closeRes, decoded,
                   received, synth, afterClose, subLog>>

\* events.Subscribe: one dial; on failure (nil, err); on success the channel,
\* the goroutine and the subscription.
Subscribe(dialOk) ==
    /\ subRet = NotCalled
    /\ dials' = dials + 1
    /\ dialErr' = ~dialOk
    /\ IF dialOk
       THEN /\ conn' = "open"
            /\ chMade' = TRUE
            /\ taskPc' = "read"
            /\ subRet' = [sub |-> "sub", err |-> "nil"]
       ELSE /\ subRet' = [sub |-> "nil", err |-> "err"]
            /\ UNCHANGED <<conn, chMade, taskPc>>
    /\ UNCHANGED <<apiVars, pairVars, logVars, closeSent, wire, peer, sent, taskEv, closeRes, decoded,
                   received, synth, afterClose, subLog>>

\* The server pushes one more frame on the connection.
ServerSend(f) ==
    /\ conn # "none"
    /\ peer = "up"
    /\ sent < MaxFrames
    /\ wire' = Append(wire, f)
    /\ sent' = sent + 1
    /\ UNCHANGED <<apiVars, pairVars, logVars, subRet, dials, dialErr, conn, closeSent, peer, taskPc, taskEv, chMade,
                   closeRes, decoded, received, synth, afterClose, subLog>>

\* The server answers the client's close frame with its own and closes.
ServerCloseReply ==
    /\ conn # "none"
    /\ peer = "up"
    /\ closeSent
    /\ peer' = "closed"
    /\ UNCHANGED <<apiVars, pairVars, logVars, subRet, dials, dialErr, conn, closeSent, wire, sent, taskPc, taskEv,
                   chMade, closeRes, decoded, received, synth, afterClose, subLog>>

\* The connection breaks (the server goes away, the network fails).
ConnFail ==
    /\ conn # "none"
    /\ peer = "up"
    /\ peer' = "failed"
    /\ UNCHANGED <<apiVars, pairVars, logVars, subRet, dials, dialErr, conn, closeSent, wire, sent, taskPc, taskEv,
                   chMade, closeRes, decoded, received, synth, afterClose, subLog>>

\* The loop dialing again when ReadMessage fails, instead of reporting the
\* failure and returning.
TaskReadRedialing ==
    /\ taskPc = "read"
    /\ \/ /\ wire # <<>>
          /\ LET r == Unmarshal(Head(wire)) IN
             IF r.err
             THEN /\ taskEv' = DecodeErrorEvent
                  /\ taskPc' = "sendErr"
                  /\ synth' = synth + 1
                  /\ subLog' = Append(subLog, "failure")
                  /\ decoded' = decoded
             ELSE /\ taskEv' = r.ev
                  /\ taskPc' = "send"
                  /\ decoded' = Append(decoded, r.ev)
                  /\ UNCHANGED <<synth, subLog>>
          /\ wire' = Tail(wire)
          /\ UNCHANGED <<dials, peer>>
       \/ /\ wire = <<>>
          /\ peer # "up"
          /\ dials' = dials + 1
          /\ peer' = "up"
          /\ UNCHANGED <<wire, decoded, taskEv, taskPc, synth, subLog>>
    /\ UNCHANGED <<apiVars, pairVars, logVars, subRet, dialErr, conn, closeSent, sent, chMade,
                   closeRes, received, afterClose>>

\* The channel made with room for events (make(chan Event, n)): the loop reads
\* the next frame while the event before it is still undelivered.
TaskReadAhead ==
    /\ taskPc \in {"read", "send"}
    /\ \/ /\ wire # <<>>
          /\ LET r == Unmarshal(Head(wire)) IN
             IF r.err
             THEN /\ taskEv' = DecodeErrorEvent
                  /\ taskPc' = "sendErr"
                  /\ synth' = synth + 1
                  /\ subLog' = Append(subLog, "failure")
                  /\ decoded' = decoded
             ELSE /\ taskEv' = r.ev
                  /\ taskPc' = "send"
                  /\ decoded' = Append(decoded, r.ev)
                  /\ UNCHANGED <<synth, subLog>>
          /\ wire' = Tail(wire)
       \/ /\ wire = <<>>
          /\ peer # "up"
          /\ taskEv' = ReadErrorEvent
          /\ taskPc' = "sendErr"
          /\ synth' = synth + 1
          /\ subLog' = Append(subLog, "failure")
          /\ UNCHANGED <<wire, decoded>>
    /\ UNCHANGED <<apiVars, pairVars, logVars, subRet, dials, dialErr, conn, closeSent, peer, sent, chMade,
                   closeRes, received, afterClose>>

\* The goroutine's loop body up to its channel send: ReadMessage returns the
\* next frame, or an error once the far end is gone; the frame is decoded.
TaskRead ==
    /\ taskPc = "read"
    /\ \/ /\ wire # <<>>
          /\ LET r == Unmarshal(Head(wire)) IN
             IF r.err
             THEN /\ taskEv' = DecodeErrorEvent
                  /\ taskPc' = "sendErr"
                  /\ synth' = synth + 1
                  /\ subLog' = Append(subLog, "failure")
                  /\ decoded' = decoded
             ELSE /\ taskEv' = r.ev
                  /\ taskPc' = "send"
                  /\ decoded' = Append(decoded, r.ev)
                  /\ UNCHANGED <<synth, subLog>>
          /\ wire' = Tail(wire)
       \/ /\ wire = <<>>
          /\ peer # "up"
          /\ taskEv' = ReadErrorEvent
          /\ taskPc' = "sendErr"
          /\ synth' = synth + 1
          /\ subLog' = Append(subLog, "failure")
          /\ UNCHANGED <<wire, decoded>>
    /\ UNCHANGED <<apiVars, pairVars, logVars, subRet, dials, dialErr, conn, closeSent, peer, sent, chMade,
                   closeRes, received, afterClose>>

\* The send as a select with a default branch: when the consumer is not
\* receiving, the event is dropped and the loop goes on.
ReceiveOrDrop ==
    /\ taskPc \in {"send", "sendErr"}
    /\ \/ received' = Append(received, taskEv)
       \/ received' = received
    /\ afterClose' = IF closeRes # <<>> /\ received' # received
                     THEN afterClose + 1 ELSE afterClose
    /\ taskPc' = IF taskPc = "send" THEN "read" ELSE "return"
    /\ taskEv' = NoEvent
    /\ UNCHANGED <<apiVars, pairVars, logVars, subRet, dials, dialErr, conn, closeSent, wire, peer, sent,
                   chMade, closeRes, decoded, synth, subLog>>

\* The loop without the return statements of lines 74 and 80: after the error
\* event the goroutine reads on.
ReceiveNoReturn ==
    /\ taskPc \in {"send", "sendErr"}
    /\ received' = Append(received, taskEv)
    /\ afterClose' = IF closeRes # <<>> THEN afterClose + 1 ELSE afterClose
    /\ taskPc' = "read"
    /\ taskEv' = NoEvent
    /\ UNCHANGED <<apiVars, pairVars, logVars, subRet, dials, dialErr, conn, closeSent, wire, peer, sent,
                   chMade, closeRes, decoded, synth, subLog>>

\* The goroutine closing the channel when it returns (a deferred close(ch)):
\* a receive on C() after that yields the zero Event at once.
ReceiveFromClosed ==
    /\ taskPc \in {"send", "sendErr", "done"}
    /\ Len(received) <= MaxFrames + 1
    /\ received' = Append(received, IF taskPc = "done" THEN NoEvent ELSE taskEv)
    /\ afterClose' = IF closeRes # <<>> THEN afterClose + 1 ELSE afterClose
    /\ taskPc' = IF taskPc = "send" THEN "read"
                 ELSE IF taskPc = "sendErr" THEN "return" ELSE "done"
    /\ taskEv' = NoEvent
    /\ UNCHANGED <<apiVars, pairVars, logVars, subRet, dials, dialErr, conn, closeSent, wire, peer, sent,
                   chMade, closeRes, decoded, synth, subLog>>

\* ch is unbuffered: the goroutine's send completes when the consumer
\* receives from C(). After an event the loop goes on; after an error event
\* the goroutine returns.
Receive ==
    /\ taskPc \in {"send", "sendErr"}
    /\ received' = Append(received, taskEv)
    /\ afterClose' = IF closeRes # <<>> THEN afterClose + 1 ELSE afterClose
    /\ taskPc' = IF taskPc = "send" THEN "read" ELSE "return"
    /\ taskEv' = NoEvent
    /\ UNCHANGED <<apiVars, pairVars, logVars, subRet, dials, dialErr, conn, closeSent, wire, peer, sent, chMade,
                   closeRes, decoded, synth, subLog>>

\* The goroutine returns: the deferred c.Close() releases the connection.
TaskReturn ==
    /\ taskPc = "return"
    /\ taskPc' = "done"
    /\ conn' = "released"
    /\ subLog' = Append(subLog, "released")
    /\ UNCHANGED <<apiVars, pairVars, logVars, subRet, dials, dialErr, closeSent, wire, peer, sent, taskEv, chMade,
                   closeRes, decoded, received, synth, afterClose>>

\* How a Close() call can end: a nil error, an error, or a panic.
CloseOutcomes == {"nil", "err", "panic"}

\* conn.WriteMessage(websocket.CloseMessage, ...): an error on a released
\* connection and after a close frame was already sent; on a broken
\* connection the write may fail or still be accepted.
WriteCloseResults ==
    IF conn = "released" \/ closeSent THEN {"err"}
    ELSE IF peer = "failed" THEN {"nil", "err"}
    ELSE {"nil"}

\* Close dropping the error of WriteMessage: it returns nil whatever the
\* write did.
CloseIgnoringWriteError(res) ==
    /\ subRet.sub = "sub"
    /\ Len(closeRes) < MaxCloseCalls
    /\ res = "nil"
    /\ closeRes' = Append(closeRes, res)
    /\ \E w \in WriteCloseResults :
          /\ closeSent' = (closeSent \/ w = "nil")
          /\ subLog' = IF w = "nil" THEN Append(subLog, "close_frame") ELSE subLog
    /\ UNCHANGED <<apiVars, pairVars, logVars, subRet, dials, dialErr, conn, wire, peer, sent, taskPc,
                   taskEv, chMade, decoded, received, synth, afterClose>>

\* Close closing the channel as well, as the comment of the interface says:
\* a second close(ch) panics.
CloseClosingChannel(res) ==
    /\ subRet.sub = "sub"
    /\ Len(closeRes) < MaxCloseCalls
    /\ IF closeRes # <<>> THEN res = "panic" ELSE res \in WriteCloseResults
    /\ closeRes' = Append(closeRes, res)
    /\ closeSent' = (closeSent \/ res = "nil")
    /\ subLog' = IF res = "nil" THEN Append(subLog, "close_frame") ELSE subLog
    /\ UNCHANGED <<apiVars, pairVars, logVars, subRet, dials, dialErr, conn, wire, peer, sent, taskPc,
                   taskEv, chMade, decoded, received, synth, afterClose>>

\* Close releasing the connection itself (s.conn.Close() after the write),
\* whatever the goroutine is doing.
CloseReleasingConn(res) ==
    /\ subRet.sub = "sub"
    /\ Len(closeRes) < MaxCloseCalls
    /\ res \in WriteCloseResults
    /\ closeRes' = Append(closeRes, res)
    /\ closeSent' = (closeSent \/ res = "nil")
    /\ conn' = "released"
    /\ subLog' = (IF res = "nil" THEN Append(subLog, "close_frame") ELSE subLog)
                    \o (IF conn = "released" THEN <<>> ELSE <<"released">>)
    /\ UNCHANGED <<apiVars, pairVars, logVars, subRet, dials, dialErr, wire, peer, sent, taskPc,
                   taskEv, chMade, decoded, received, synth, afterClose>>

\* subscription.Close: writes the close frame and returns the write's result.
Close(res) ==
    /\ subRet.sub = "sub"
    /\ Len(closeRes) < MaxCloseCalls
    /\ res \in WriteCloseResults
    /\ closeRes' = Append(closeRes, res)
    /\ closeSent' = (closeSent \/ res = "nil")
    /\ subLog' = IF res = "nil" THEN Append(subLog, "close_frame") ELSE subLog
    /\ UNCHANGED <<apiVars, pairVars, logVars, subRet, dials, dialErr, conn, wire, peer, sent, taskPc, taskEv, chMade,
                   decoded, received, synth, afterClose>>

SubNext ==
    \/ \E ok \in BOOLEAN : Subscribe(ok)
    \/ \E f \in Frames : ServerSend(f)
    \/ ServerCloseReply
    \/ ConnFail
    \/ TaskRead
    \/ Receive
    \/ TaskReturn
    \/ \E res \in CloseOutcomes : Close(res)

Init == SubIdle /\ LogIdle /\ ApiIdle /\ PairIdle

SubSpec == Init /\ [][SubNext]_vars

\* ------------------------------------------------------------ the log reader

\* The plan writes one more byte to its log; a plan in a final status writes
\* nothing more.
LogAppend ==
    /\ planStatus \notin FinalStatuses
    /\ Len(log) < MaxLog
    /\ log' = Append(log, Len(log) + 1)
    /\ UNCHANGED <<apiVars, pairVars, subVars, planStatus, cancelled, rdPc, offset, finalFetch, attempts,
                   polls, rdRes, returned, logAtFinal, saidDone, emptyAfterDone, retried,
                   lastFetch, lastDone>>

\* The order in which the service takes a plan through its statuses; the
\* final statuses come last and can follow any other.
StatusOrder == <<PlanCreated, PlanPending, PlanMFAWaiting, PlanQueued, PlanRunning,
                 "policy_checking">>

Rank(s) ==
    IF s \in FinalStatuses THEN Len(StatusOrder) + 1
    ELSE CHOOSE i \in 1..Len(StatusOrder) : StatusOrder[i] = s

\* The service moves the plan on to a later status; a final status is kept.
PlanAdvance(s) ==
    /\ planStatus \notin FinalStatuses
    /\ Rank(s) > Rank(planStatus)
    /\ planStatus' = s
    /\ logAtFinal' = IF s \in FinalStatuses THEN log ELSE logAtFinal
    /\ UNCHANGED <<apiVars, pairVars, subVars, log, cancelled, rdPc, offset, finalFetch, attempts, polls,
                   rdRes, returned, saidDone, emptyAfterDone, retried, lastFetch,
                   lastDone>>

\* The caller cancels ctx.
Cancel ==
    /\ ~cancelled
    /\ cancelled' = TRUE
    /\ UNCHANGED <<apiVars, pairVars, subVars, planStatus, log, rdPc, offset, finalFetch, attempts, polls,
                   rdRes, returned, logAtFinal, saidDone, emptyAfterDone, retried,
                   lastFetch, lastDone>>

\* The switch with PlanRunning among the cases that return true.
PlanDoneWhileRunning(status) ==
    status \in {PlanCanceled, PlanErrored, PlanFinished, PlanUnreachable, PlanRunning}

\* The switch without PlanUnreachable among the cases that return true.
PlanDoneMissingUnreachable(status) ==
    status \in {PlanCanceled, PlanErrored, PlanFinished}

\* The switch with its two results exchanged.
PlanDoneInverted(status) ==
    status \notin {PlanCanceled, PlanErrored, PlanFinished, PlanUnreachable}

\* The switch of the done closure on the status of the plan it re-read.
PlanDone(status) ==
    status \in {PlanCanceled, PlanErrored, PlanFinished, PlanUnreachable}

\* The done closure: re-reads the plan; (false, err) when the read fails,
\* else whether the status is one of the four.
Done(readOk) ==
    IF readOk
    THEN [done |-> PlanDone(planStatus), err |-> FALSE]
    ELSE [done |-> FALSE, err |-> TRUE]

\* The caller invokes the reader's read.
ReadCall ==
    /\ rdPc = "idle"
    /\ rdPc' = "fetch"
    /\ finalFetch' = FALSE
    /\ attempts' = 0
    /\ polls' = 0
    /\ lastFetch' = "none"
    /\ UNCHANGED <<apiVars, pairVars, subVars, planStatus, log, cancelled, offset, rdRes, returned,
                   logAtFinal, saidDone, emptyAfterDone, retried, lastDone>>

\* The bytes a fetch at the offset can return: up to MaxChunk of those beyond
\* the offset, at least one when there are any.
FetchSizes ==
    LET avail == Len(log) - offset IN
    IF avail = 0 THEN {0}
    ELSE {n \in 1..MaxChunk : n <= avail}

\* The fetch with one of three slips: "stale_offset" leaves the offset where
\* it was when bytes are returned, "no_retry" returns a transient failure at
\* once, "retry_fatal" retries every failure.
FetchVariant(outcome, n, slip) ==
    /\ rdPc = "fetch"
    /\ \/ /\ outcome = "ok"
          /\ n \in FetchSizes
          /\ IF n > 0
             THEN /\ offset' = IF slip = "stale_offset" THEN offset ELSE offset + n
                  /\ returned' = returned \o SubSeq(log, offset + 1, offset + n)
                  /\ rdRes' = "data"
                  /\ rdPc' = "idle"
                  /\ UNCHANGED <<polls, emptyAfterDone>>
             ELSE /\ polls' = polls + 1
                  /\ emptyAfterDone' = (emptyAfterDone \/ saidDone)
                  /\ IF finalFetch
                     THEN rdRes' = "eof" /\ rdPc' = "eof"
                     ELSE rdRes' = rdRes /\ rdPc' = "check"
                  /\ UNCHANGED <<offset, returned>>
          /\ UNCHANGED <<attempts, retried>>
       \/ /\ outcome = "transient" \/ (outcome = "fatal" /\ slip = "retry_fatal")
          /\ n = 0
          /\ attempts' = attempts + 1
          /\ IF attempts + 1 < MaxAttempts /\ slip # "no_retry"
             THEN rdPc' = "wait" /\ rdRes' = rdRes /\ retried' = TRUE
             ELSE rdPc' = "failed" /\ rdRes' = "err" /\ retried' = retried
          /\ UNCHANGED <<offset, returned, polls, emptyAfterDone>>
       \/ /\ outcome = "fatal" /\ slip # "retry_fatal"
          /\ n = 0
          /\ rdPc' = "failed"
          /\ rdRes' = "err"
          /\ UNCHANGED <<offset, returned, polls, emptyAfterDone, attempts, retried>>
    /\ lastFetch' = outcome
    /\ UNCHANGED <<apiVars, pairVars, subVars, planStatus, log, cancelled, finalFetch, logAtFinal, saidDone,
                   lastDone>>

FetchStaleOffset(outcome, n) == FetchVariant(outcome, n, "stale_offset")

FetchNoRetry(outcome, n) == FetchVariant(outcome, n, "no_retry")

FetchRetryingFatal(outcome, n) == FetchVariant(outcome, n, "retry_fatal")

\* One fetch of the bytes beyond the offset. With bytes the read returns
\* them; with none it ends the stream if done() had answered true, and asks
\* done() otherwise; a transient failure is retried within MaxAttempts; any
\* other failure is returned.
Fetch(outcome, n) ==
    /\ rdPc = "fetch"
    /\ \/ /\ outcome = "ok"
          /\ n \in FetchSizes
          /\ IF n > 0
             THEN /\ offset' = offset + n
                  /\ returned' = returned \o SubSeq(log, offset + 1, offset + n)
                  /\ rdRes' = "data"
                  /\ rdPc' = "idle"
                  /\ UNCHANGED <<polls, emptyAfterDone>>
             ELSE /\ polls' = polls + 1
                  /\ emptyAfterDone' = (emptyAfterDone \/ saidDone)
                  /\ IF finalFetch
                     THEN rdRes' = "eof" /\ rdPc' = "eof"
                     ELSE rdRes' = rdRes /\ rdPc' = "check"
                  /\ UNCHANGED <<offset, returned>>
          /\ UNCHANGED <<attempts, retried>>
       \/ /\ outcome = "transient"
          /\ n = 0
          /\ attempts' = attempts + 1
          /\ IF attempts + 1 < MaxAttempts
             THEN rdPc' = "wait" /\ rdRes' = rdRes /\ retried' = TRUE
             ELSE rdPc' = "failed" /\ rdRes' = "err" /\ retried' = retried
          /\ UNCHANGED <<offset, returned, polls, emptyAfterDone>>
       \/ /\ outcome = "fatal"
          /\ n = 0
          /\ rdPc' = "failed"
          /\ rdRes' = "err"
          /\ UNCHANGED <<offset, returned, polls, emptyAfterDone, attempts, retried>>
    /\ lastFetch' = outcome
    /\ UNCHANGED <<apiVars, pairVars, subVars, planStatus, log, cancelled, finalFetch, logAtFinal, saidDone,
                   lastDone>>

\* The reader ending the stream as soon as done() answers true, without the
\* fetch that follows the answer.
CheckEndingAtDone(readOk) ==
    /\ rdPc = "check"
    /\ LET d == Done(readOk) IN
       IF d.err
       THEN /\ rdPc' = "failed"
            /\ rdRes' = "err"
            /\ UNCHANGED <<finalFetch, saidDone>>
       ELSE IF d.done
       THEN /\ rdPc' = "eof"
            /\ finalFetch' = TRUE
            /\ saidDone' = TRUE
            /\ rdRes' = "eof"
       ELSE /\ polls <= MaxPolls
            /\ rdPc' = "wait"
            /\ UNCHANGED <<finalFetch, saidDone, rdRes>>
    /\ lastDone' = [status |-> planStatus, read |-> readOk,
                    done |-> Done(readOk).done, err |-> Done(readOk).err]
    /\ UNCHANGED <<apiVars, pairVars, subVars, planStatus, log, cancelled, offset, attempts, polls,
                   returned, logAtFinal, emptyAfterDone, retried, lastFetch>>

\* After an empty fetch the reader asks done(): true makes the next fetch the
\* last one, false makes the reader wait, an error is returned. (At most
\* MaxPolls answers of false are followed in one read.)
Check(readOk) ==
    /\ rdPc = "check"
    /\ LET d == Done(readOk) IN
       IF d.err
       THEN /\ rdPc' = "failed"
            /\ rdRes' = "err"
            /\ UNCHANGED <<finalFetch, saidDone>>
       ELSE IF d.done
       THEN /\ rdPc' = "fetch"
            /\ finalFetch' = TRUE
            /\ saidDone' = TRUE
            /\ rdRes' = rdRes
       ELSE /\ polls <= MaxPolls
            /\ rdPc' = "wait"
            /\ UNCHANGED <<finalFetch, saidDone, rdRes>>
    /\ lastDone' = [status |-> planStatus, read |-> readOk,
                    done |-> Done(readOk).done, err |-> Done(readOk).err]
    /\ UNCHANGED <<apiVars, pairVars, subVars, planStatus, log, cancelled, offset, attempts, polls,
                   returned, logAtFinal, emptyAfterDone, retried, lastFetch>>

\* The wait as a plain sleep, without a look at ctx.
WaitIgnoringCtx ==
    /\ rdPc = "wait"
    /\ rdPc' = "fetch"
    /\ UNCHANGED <<apiVars, pairVars, subVars, planStatus, log, cancelled, offset, finalFetch, attempts,
                   polls, rdRes, returned, logAtFinal, saidDone, emptyAfterDone, retried,
                   lastFetch, lastDone>>

\* Before a wait and the retry after it the reader looks at ctx: when it is
\* done the read returns its error, else the reader waits and fetches again.
Wait ==
    /\ rdPc = "wait"
    /\ IF cancelled
       THEN rdPc' = "failed" /\ rdRes' = "cancelled"
       ELSE rdPc' = "fetch" /\ rdRes' = rdRes
    /\ UNCHANGED <<apiVars, pairVars, subVars, planStatus, log, cancelled, offset, finalFetch, attempts,
                   polls, returned, logAtFinal, saidDone, emptyAfterDone, retried,
                   lastFetch, lastDone>>

LogNext ==
    \/ LogAppend
    \/ \E s \in ServiceStatuses : PlanAdvance(s)
    \/ Cancel
    \/ ReadCall
    \/ \E o \in {"ok", "transient", "fatal"}, n \in 0..MaxChunk : Fetch(o, n)
    \/ \E ok \in BOOLEAN : Check(ok)
    \/ Wait

LogSpec == Init /\ [][LogNext]_vars

\* The reader under the scheduling the program has: a read runs in its
\* caller's thread, so each of its steps is taken once it can be. Nothing
\* makes the plan advance, the log grow or the caller read again.
FairLogSpec ==
    /\ LogSpec
    /\ WF_vars(\E o \in {"ok", "transient", "fatal"}, n \in 0..MaxChunk : Fetch(o, n))
    /\ WF_vars(\E ok \in BOOLEAN : Check(ok))
    /\ WF_vars(Wait)

\* The subscription under the scheduling the program has: the goroutine runs
\* whenever it can, and the server answers a close frame. Nothing makes the
\* consumer receive.
FairSubSpec ==
    /\ SubSpec
    /\ WF_vars(TaskRead)
    /\ WF_vars(TaskReturn)
    /\ WF_vars(ServerCloseReply)

\* ------------------------------------------------------------ the API client

\* fmt.Sprintf of a path around url.QueryEscape(id)
Path(prefix, id, suffix) == <<prefix, QueryEscape(id), suffix>>

\* How the client ends a request: newRequest fails, do fails, or do succeeds.
Outcomes == {"build_err", "send_err", "ok"}

\* An operation returns err before it has called the client.
Refuse(op, ctx, id, err) ==
    /\ apiRet' = [NoCall EXCEPT !.op = op, !.id = id, !.ctx = ctx, !.err = err]
    /\ lastReq' = NoRequest
    /\ UNCHANGED <<built, sentReqs>>

\* req, err := s.client.newRequest(method, u, ...) and, when that gave a
\* request, s.client.do(ctx, req, ...).
Send(ctx, method, path, outcome) ==
    /\ built' = built + 1
    /\ IF outcome = "build_err"
       THEN lastReq' = NoRequest /\ sentReqs' = sentReqs
       ELSE /\ lastReq' = [method |-> method, path |-> path, ctx |-> ctx]
            /\ sentReqs' = sentReqs + 1

\* The operations whose whole body after the checks is newRequest and do:
\* they return the error of the client, or nil.
Do(op, ctx, id, method, path, outcome) ==
    /\ Send(ctx, method, path, outcome)
    /\ apiRet' = [NoCall EXCEPT !.op = op, !.id = id, !.ctx = ctx, !.outcome = outcome,
                                !.err = IF outcome = "ok" THEN "nil" ELSE outcome]

\* The caller invokes one more operation.
Invoke ==
    /\ calls < MaxCalls
    /\ calls' = calls + 1

\* The include option of RunReadOptions, as it shows in the query.
Includes == {"", "?include=workspace"}

\* runs.ReadWithOptions
RunsReadWithOptions(ctx, runID, include, outcome) ==
    /\ Invoke
    /\ IF ~validStringID(<<runID>>)
       THEN Refuse("ReadWithOptions", ctx, runID, "ErrInvalidRunID")
       ELSE Do("ReadWithOptions", ctx, runID, "GET", Path("runs/", runID, include), outcome)
    /\ UNCHANGED <<subVars, logVars, pairVars, doneFor>>

\* runs.Read: ReadWithOptions with the empty options; the caller sees the
\* result as that of Read.
RunsRead(ctx, runID, outcome) ==
    /\ Invoke
    /\ IF ~validStringID(<<runID>>)
       THEN Refuse("Read", ctx, runID, "ErrInvalidRunID")
       ELSE Do("Read", ctx, runID, "GET", Path("runs/", runID, ""), outcome)
    /\ UNCHANGED <<subVars, logVars, pairVars, doneFor>>

\* runs.Apply
RunsApply(ctx, runID, outcome) ==
    /\ Invoke
    /\ IF ~validStringID(<<runID>>)
       THEN Refuse("Apply", ctx, runID, "ErrInvalidRunID")
       ELSE Do("Apply", ctx, runID, "POST", Path("runs/", runID, "/actions/apply"), outcome)
    /\ UNCHANGED <<subVars, logVars, pairVars, doneFor>>

\* runs.Cancel
RunsCancel(ctx, runID, outcome) ==
    /\ Invoke
    /\ IF ~validStringID(<<runID>>)
       THEN Refuse("Cancel", ctx, runID, "ErrInvalidRunID")
       ELSE Do("Cancel", ctx, runID, "POST", Path("runs/", runID, "/actions/cancel"), outcome)
    /\ UNCHANGED <<subVars, logVars, pairVars, doneFor>>

\* runs.ForceCancel
RunsForceCancel(ctx, runID, outcome) ==
    /\ Invoke
    /\ IF ~validStringID(<<runID>>)
       THEN Refuse("ForceCancel", ctx, runID, "ErrInvalidRunID")
       ELSE Do("ForceCancel", ctx, runID, "POST",
               Path("runs/", runID, "/actions/force-cancel"), outcome)
    /\ UNCHANGED <<subVars, logVars, pairVars, doneFor>>

\* runs.Discard
RunsDiscard(ctx, runID, outcome) ==
    /\ Invoke
    /\ IF ~validStringID(<<runID>>)
       THEN Refuse("Discard", ctx, runID, "ErrInvalidRunID")
       ELSE Do("Discard", ctx, runID, "POST", Path("runs/", runID, "/actions/discard"), outcome)
    /\ UNCHANGED <<subVars, logVars, pairVars, doneFor>>

\* runs.GetPlanFile: the path is formatted from the run ID as it comes.
RunsGetPlanFile(ctx, runID, outcome) ==
    /\ Invoke
    /\ Do("GetPlanFile", ctx, runID, "GET", Path("/runs/", runID, "/plan"), outcome)
    /\ UNCHANGED <<subVars, logVars, pairVars, doneFor>>

\* runs.UploadPlanFile: encodes the options, then as GetPlanFile with PUT.
RunsUploadPlanFile(ctx, runID, outcome) ==
    /\ Invoke
    /\ IF outcome = "encode_err"
       THEN Refuse("UploadPlanFile", ctx, runID, "encode_err")
       ELSE Do("UploadPlanFile", ctx, runID, "PUT", Path("/runs/", runID, "/plan"), outcome)
    /\ UNCHANGED <<subVars, logVars, pairVars, doneFor>>

\* runs.UploadLogs: encodes the options, then PUT on the logs of the run.
RunsUploadLogs(ctx, runID, outcome) ==
    /\ Invoke
    /\ IF outcome = "encode_err"
       THEN Refuse("UploadLogs", ctx, runID, "encode_err")
       ELSE Do("UploadLogs", ctx, runID, "PUT", Path("/runs/", runID, "/logs"), outcome)
    /\ UNCHANGED <<subVars, logVars, pairVars, doneFor>>

\* plans.Logs without the check of an empty log URL (lines 110-113).
LogsWithoutEmptyCheck(ctx, planID, outcome, raw) ==
    /\ Invoke
    /\ IF ~validStringID(<<planID>>)
       THEN /\ Refuse("Logs", ctx, planID, "invalid value for plan ID")
            /\ doneFor' = doneFor
       ELSE /\ Send(ctx, "GET", Path("plans/", planID, ""), outcome)
            /\ LET p == [ID |-> planID, LogReadURL |-> raw]
                   u == ParseURL(p.LogReadURL)
                   ret == [NoCall EXCEPT !.op = "Logs", !.id = planID, !.ctx = ctx,
                                         !.outcome = outcome, !.url = raw]
               IN  IF outcome # "ok"
                   THEN apiRet' = [ret EXCEPT !.err = outcome] /\ doneFor' = doneFor
                   ELSE IF u.err
                   THEN apiRet' = [ret EXCEPT !.err = "invalid log URL"] /\ doneFor' = doneFor
                   ELSE LET done == [id |-> p.ID, ctx |-> ctx] IN
                        /\ doneFor' = doneFor \cup {done}
                        /\ apiRet' = [ret EXCEPT !.err = "nil",
                                         !.reader = [logURL |-> u.url, ctx |-> ctx,
                                                     done |-> done]]
    /\ UNCHANGED <<subVars, logVars, pairVars>>

\* plans.Logs: the check of the ID, the read of the plan (plans.Read: GET
\* plans/<id>; the service answers with the plan it was asked for), the two
\* checks of its log URL, the done closure and the reader.
Logs(ctx, planID, outcome, raw) ==
    /\ Invoke
    /\ IF ~validStringID(<<planID>>)
       THEN /\ Refuse("Logs", ctx, planID, "invalid value for plan ID")
            /\ doneFor' = doneFor
       ELSE /\ Send(ctx, "GET", Path("plans/", planID, ""), outcome)
            /\ LET p == [ID |-> planID, LogReadURL |-> raw]
                   u == ParseURL(p.LogReadURL)
                   ret == [NoCall EXCEPT !.op = "Logs", !.id = planID, !.ctx = ctx,
                                         !.outcome = outcome, !.url = raw]
               IN  IF outcome # "ok"
                   THEN apiRet' = [ret EXCEPT !.err = outcome] /\ doneFor' = doneFor
                   ELSE IF p.LogReadURL = ""
                   THEN apiRet' = [ret EXCEPT !.err = "no log URL"] /\ doneFor' = doneFor
                   ELSE IF u.err
                   THEN apiRet' = [ret EXCEPT !.err = "invalid log URL"] /\ doneFor' = doneFor
                   ELSE LET done == [id |-> p.ID, ctx |-> ctx] IN
                        /\ doneFor' = doneFor \cup {done}
                        /\ apiRet' = [ret EXCEPT !.err = "nil",
                                         !.reader = [logURL |-> u.url, ctx |-> ctx,
                                                     done |-> done]]
    /\ UNCHANGED <<subVars, logVars, pairVars>>

\* A reader calls the done closure that plans.Logs gave it: the closure reads
\* the plan of the ID it captured, with the ctx it captured.
LogsDone(d, outcome, status) ==
    /\ Invoke
    /\ d \in doneFor
    /\ Send(d.ctx, "GET", Path("plans/", d.id, ""), outcome)
    /\ apiRet' = [NoCall EXCEPT !.op = "done", !.id = d.id, !.ctx = d.ctx,
                                !.outcome = outcome,
                                !.err = IF outcome = "ok" THEN "nil" ELSE outcome,
                                !.done = (outcome = "ok" /\ PlanDone(status))]
    /\ UNCHANGED <<subVars, logVars, pairVars, doneFor>>

ApiNext ==
    \/ \E ctx \in Ctxs, id \in IDs, o \in Outcomes :
          \/ RunsRead(ctx, id, o)
          \/ \E inc \in Includes : RunsReadWithOptions(ctx, id, inc, o)
          \/ RunsApply(ctx, id, o)
          \/ RunsCancel(ctx, id, o)
          \/ RunsForceCancel(ctx, id, o)
          \/ RunsDiscard(ctx, id, o)
          \/ RunsGetPlanFile(ctx, id, o)
    \/ \E ctx \in Ctxs, id \in IDs, o \in Outcomes \cup {"encode_err"} :
          \/ RunsUploadPlanFile(ctx, id, o)
          \/ RunsUploadLogs(ctx, id, o)
    \/ \E ctx \in Ctxs, id \in IDs, o \in Outcomes, raw \in RawURLs : Logs(ctx, id, o, raw)
    \/ \E d \in doneFor, o \in Outcomes, st \in {PlanRunning, PlanUnreachable} :
          LogsDone(d, o, st)

ApiSpec == Init /\ [][ApiNext]_vars

\* ------------------------------------------------- two subscriptions at once
\* events.Subscribe and subscription.Close as above, with the objects they
\* make and hold spelled out: each Dial returns a connection of its own, each
\* make a channel of its own, and a goroutine works on the c and ch that its
\* Subscribe call captured.

\* What Dial and make return: a connection, a channel, not in use yet.
FreshConn == CHOOSE c \in ConnIds : pConn[c].state = "none"
FreshChan == CHOOSE h \in ChanIds : ~pChan[h].made

\* The frames the server pushes on connection c: an event that names c in
\* its payload, or bytes that are not JSON.
FramesOn(c) == {[json |-> TRUE, type |-> EventRunCreated, payload |-> c], NotJSON}

\* Subscribe with ch as a variable of the package, made once and used by
\* every subscription.
SubscribeBySharingChannel(i, dialOk) ==
    /\ pRet[i] = NoSub
    /\ IF dialOk
       THEN LET c == FreshConn
                h == "chan1"
            IN  /\ pConn' = [pConn EXCEPT ![c].state = "open"]
                /\ pChan' = [pChan EXCEPT ![h].made = TRUE]
                /\ pTask' = [pTask EXCEPT ![i] = [pc |-> "read", c |-> c, ch |-> h,
                                                  ev |-> NoEvent]]
                /\ pRet' = [pRet EXCEPT ![i] = [sub |-> "sub", err |-> "nil",
                                                conn |-> c, ch |-> h]]
       ELSE /\ pRet' = [pRet EXCEPT ![i] = [sub |-> "nil", err |-> "err",
                                            conn |-> "", ch |-> ""]]
            /\ UNCHANGED <<pConn, pChan, pTask>>
    /\ UNCHANGED <<subVars, logVars, apiVars, pCloseRes>>

\* events.Subscribe called by i.
SubscribeBy(i, dialOk) ==
    /\ pRet[i] = NoSub
    /\ IF dialOk
       THEN LET c == FreshConn
                h == FreshChan
            IN  /\ pConn' = [pConn EXCEPT ![c].state = "open"]
                /\ pChan' = [pChan EXCEPT ![h].made = TRUE]
                /\ pTask' = [pTask EXCEPT ![i] = [pc |-> "read", c |-> c, ch |-> h,
                                                  ev |-> NoEvent]]
                /\ pRet' = [pRet EXCEPT ![i] = [sub |-> "sub", err |-> "nil",
                                                conn |-> c, ch |-> h]]
       ELSE /\ pRet' = [pRet EXCEPT ![i] = [sub |-> "nil", err |-> "err",
                                            conn |-> "", ch |-> ""]]
            /\ UNCHANGED <<pConn, pChan, pTask>>
    /\ UNCHANGED <<subVars, logVars, apiVars, pCloseRes>>

\* The server pushes a frame on connection c.
ServerSendOn(c, f) ==
    /\ pConn[c].state # "none"
    /\ pConn[c].peer = "up"
    /\ pConn[c].sent < MaxPairFrames
    /\ pConn' = [pConn EXCEPT ![c].wire = Append(@, f), ![c].sent = @ + 1]
    /\ UNCHANGED <<subVars, logVars, apiVars, pRet, pTask, pChan, pCloseRes>>

\* The server answers the close frame on connection c and closes.
ServerCloseReplyOn(c) ==
    /\ pConn[c].state # "none"
    /\ pConn[c].peer = "up"
    /\ pConn[c].closeSent
    /\ pConn' = [pConn EXCEPT ![c].peer = "closed"]
    /\ UNCHANGED <<subVars, logVars, apiVars, pRet, pTask, pChan, pCloseRes>>

\* Connection c breaks.
ConnFailOn(c) ==
    /\ pConn[c].state # "none"
    /\ pConn[c].peer = "up"
    /\ pConn' = [pConn EXCEPT ![c].peer = "failed"]
    /\ UNCHANGED <<subVars, logVars, apiVars, pRet, pTask, pChan, pCloseRes>>

\* The loop body of the goroutine of i, up to its send: c.ReadMessage on the
\* connection it captured, then the decoding.
TaskReadOf(i) ==
    LET t == pTask[i]
        k == pConn[t.c]
    IN  /\ t.pc = "read"
        /\ \/ /\ k.wire # <<>>
              /\ LET r == Unmarshal(Head(k.wire)) IN
                 pTask' = [pTask EXCEPT ![i].ev = IF r.err THEN DecodeErrorEvent ELSE r.ev,
                                        ![i].pc = IF r.err THEN "sendErr" ELSE "send"]
              /\ pConn' = [pConn EXCEPT ![t.c].wire = Tail(@)]
           \/ /\ k.wire = <<>>
              /\ k.peer # "up"
              /\ pTask' = [pTask EXCEPT ![i].ev = ReadErrorEvent, ![i].pc = "sendErr"]
              /\ pConn' = pConn
        /\ UNCHANGED <<subVars, logVars, apiVars, pRet, pChan, pCloseRes>>

\* The consumer of i's subscription receives from its C(): the send of a
\* goroutine blocked on that channel completes.
ReceiveFrom(i) ==
    /\ pRet[i].sub = "sub"
    /\ \E j \in Subs :
          /\ pTask[j].ch = pRet[i].ch
          /\ pTask[j].pc \in {"send", "sendErr"}
          /\ pChan' = [pChan EXCEPT ![pRet[i].ch].received =
                          Append(@, [ev |-> pTask[j].ev, from |-> pTask[j].c, by |-> i])]
          /\ pTask' = [pTask EXCEPT ![j].ev = NoEvent,
                                    ![j].pc = IF pTask[j].pc = "send" THEN "read"
                                              ELSE "return"]
    /\ UNCHANGED <<subVars, logVars, apiVars, pRet, pConn, pCloseRes>>

\* The goroutine of i returns: its deferred c.Close().
TaskReturnOf(i) ==
    /\ pTask[i].pc = "return"
    /\ pTask' = [pTask EXCEPT ![i].pc = "done"]
    /\ pConn' = [pConn EXCEPT ![pTask[i].c].state = "released"]
    /\ UNCHANGED <<subVars, logVars, apiVars, pRet, pChan, pCloseRes>>

\* conn.WriteMessage(websocket.CloseMessage, ...) on connection c.
WriteCloseResultsOn(c) ==
    IF pConn[c].state = "released" \/ pConn[c].closeSent THEN {"err"}
    ELSE IF pConn[c].peer = "failed" THEN {"nil", "err"}
    ELSE {"nil"}

\* subscription.Close on the subscription of i.
CloseBy(i, res) ==
    /\ pRet[i].sub = "sub"
    /\ Len(pCloseRes[i]) < MaxPairCloses
    /\ res \in WriteCloseResultsOn(pRet[i].conn)
    /\ pCloseRes' = [pCloseRes EXCEPT ![i] = Append(@, res)]
    /\ pConn' = [pConn EXCEPT ![pRet[i].conn].closeSent = (@ \/ res = "nil")]
    /\ UNCHANGED <<subVars, logVars, apiVars, pRet, pTask, pChan>>

PairNext ==
    \/ \E i \in Subs, ok \in BOOLEAN : SubscribeBy(i, ok)
    \/ \E c \in ConnIds : \E f \in FramesOn(c) : ServerSendOn(c, f)
    \/ \E c \in ConnIds : ServerCloseReplyOn(c)
    \/ \E c \in ConnIds : ConnFailOn(c)
    \/ \E i \in Subs : TaskReadOf(i)
    \/ \E i \in Subs : ReceiveFrom(i)
    \/ \E i \in Subs : TaskReturnOf(i)
    \/ \E i \in Subs, res \in CloseOutcomes : CloseBy(i, res)

PairSpec == Init /\ [][PairNext]_vars

\* ------------------------------------------------------------------ claims

Last(q) == q[Len(q)]

TaskLeft == taskPc \in {"return", "done"}

\* The events the consumer received that the goroutine forwarded from frames:
\* all of them but the error event it synthesized before leaving.
Forwarded == IF TaskLeft THEN SubSeq(received, 1, Len(received) - 1) ELSE received

\* C1: the consumer receives the events of the frames decoded successfully
\* in the order the frames were read, each once: what it has received is
\* the decoded sequence, less only the one event the goroutine is blocked
\* sending.
C1_InOrderNoLoss ==
    /\ Len(Forwarded) <= Len(decoded)
    /\ Forwarded = SubSeq(decoded, 1, Len(Forwarded))
    /\ Len(decoded) - Len(Forwarded) = (IF taskPc = "send" THEN 1 ELSE 0)

C1_Witness ==
    /\ Len(received) >= 3
    /\ received = decoded
    /\ received[1] # received[2]
    /\ taskPc = "read"

\* C2: once a Close() has returned, no receive on C() yields an event.
C2_NoEventAfterClose == afterClose = 0

\* C3: after a read or decode failure the goroutine synthesizes one error
\* event, the only thing it still delivers, and leaves: it reads no further
\* frame, decodes and forwards nothing more, and never synthesizes a second.
C3_State ==
    /\ synth <= 1
    /\ taskPc = "sendErr" => (synth = 1 /\ taskEv.Type = EventError)
    /\ TaskLeft => /\ synth = 1
                   /\ received # <<>>
                   /\ Last(received) \in {ReadErrorEvent, DecodeErrorEvent}
    /\ (synth = 1) = (taskPc \in {"sendErr", "return", "done"})

C3_Step ==
    /\ taskPc \in {"sendErr", "return", "done"} =>
          /\ taskPc' \in {"sendErr", "return", "done"}
          /\ decoded' = decoded
          /\ Len(wire') >= Len(wire)
    /\ TaskLeft => received' = received

C3_ErrorOnceThenExit == [](C3_State) /\ [][C3_Step]_vars

C3_Witness ==
    /\ taskPc = "done"
    /\ Len(received) >= 2
    /\ Last(received) = DecodeErrorEvent
    /\ wire # <<>>

\* The close frames and failures of the subscription, in their order.
Ends == SelectSeq(subLog, LAMBDA e : e \in {"close_frame", "failure"})

\* The state of the subscription: OPEN until the first of a Close() that wrote
\* the close frame (CLOSED) and a failure of the goroutine (ERROR). A Close()
\* after the failure leaves it in ERROR; a failure after the Close() is the
\* state CLOSED_THEN_ERROR, which the state machine does not have.
Life ==
    IF subRet = NotCalled THEN "CONNECTING"
    ELSE IF subRet.sub = "nil" THEN "FAILED"
    ELSE IF Ends = <<>> THEN "OPEN"
    ELSE IF Ends[1] = "failure" THEN "ERROR"
    ELSE IF \E i \in 1..Len(Ends) : Ends[i] = "failure" THEN "CLOSED_THEN_ERROR"
    ELSE "CLOSED"

\* C4: the subscription only goes from CONNECTING to OPEN and from OPEN to
\* ERROR or to CLOSED; ERROR and CLOSED are never left, so a closed
\* subscription never reports an error.
C4_Lifecycle ==
    [][\/ Life' = Life
       \/ <<Life, Life'>> \in {<<"CONNECTING", "OPEN">>, <<"CONNECTING", "FAILED">>,
                                <<"OPEN", "ERROR">>, <<"OPEN", "CLOSED">>}]_vars

\* C5: when the dial fails Subscribe returns (nil, err) after that one dial,
\* with no goroutine, no channel and no connection, and nothing is ever
\* received.
C5_DialFailure ==
    dialErr =>
        /\ subRet = [sub |-> "nil", err |-> "err"]
        /\ dials = 1
        /\ taskPc = "none"
        /\ ~chMade
        /\ conn = "none"
        /\ received = <<>>

C5_Witness == dialErr /\ subRet.sub = "nil" /\ dials = 1

\* C6: when a Close() returned nil, the close frame was written on the
\* connection, and written before the connection was released.
C6_CloseFrameBeforeTeardown ==
    (\E i \in 1..Len(closeRes) : closeRes[i] = "nil") =>
        \E k \in 1..Len(subLog) :
            /\ subLog[k] = "close_frame"
            /\ \A j \in 1..(k - 1) : subLog[j] # "released"

C6_Witness ==
    /\ closeRes # <<>>
    /\ closeRes[1] = "nil"
    /\ conn = "released"
    /\ subLog = <<"close_frame", "failure", "released">>

\* C7: after a Close() has written the close frame, the connection is
\* eventually released and the goroutine eventually ends.
C7_CloseReleases == closeSent ~> (conn = "released" /\ taskPc = "done")

\* C8: a further Close() on a subscription returns, nil or an error: it is
\* never blocked and never panics, also after the goroutine has released the
\* connection.
C8_SecondCloseReturns ==
    /\ \A i \in 1..Len(closeRes) : closeRes[i] \in {"nil", "err"}
    /\ (subRet.sub = "sub" /\ closeRes # <<>> /\ Len(closeRes) < MaxCloseCalls) =>
          ENABLED (\E res \in {"nil", "err"} : Close(res))

C8_Witness ==
    /\ Len(closeRes) >= 2
    /\ closeRes[2] = "err"
    /\ conn = "released"

\* C9: a read returns end-of-stream only when done() has answered true and a
\* fetch after that answer returned no bytes; while the plan is in no final
\* status no read returns end-of-stream, whatever the number of empty fetches.
C9_EofOnlyAfterDone ==
    /\ rdRes = "eof" => (saidDone /\ emptyAfterDone)
    /\ planStatus \notin FinalStatuses => rdRes # "eof"

C9_Witness == rdRes = "eof" /\ polls >= 3 /\ saidDone

\* C10: at end-of-stream the bytes the reads returned, concatenated, are the
\* log as it was when the plan reached its final status, and before that
\* they are the log up to the offset: no gap, no byte twice.
C10_ReturnedIsLog ==
    /\ returned = SubSeq(log, 1, offset)
    /\ rdRes = "eof" => (planStatus \in FinalStatuses /\ returned = logAtFinal)

C10_Witness == rdRes = "eof" /\ Len(returned) >= 3 /\ retried

\* A step of the reader that ends a fetch.
FetchStep == rdPc = "fetch" /\ rdPc' # "fetch"

InRead == rdPc \in {"fetch", "check", "wait"}

\* C11: the offset never decreases and changes only when a fetch returns
\* bytes: then by the number of bytes returned, which the read returns as
\* data and not as end-of-stream. Every other step leaves it alone.
C11_OffsetAdvance ==
    [][/\ offset' >= offset
       /\ offset' # offset =>
             /\ FetchStep
             /\ lastFetch' = "ok"
             /\ rdRes' = "data"
             /\ rdPc' = "idle"
             /\ returned' = returned \o SubSeq(log, offset + 1, offset')
       /\ (FetchStep /\ rdPc' = "idle") => offset' > offset
       /\ Len(returned') # Len(returned) =>
             Len(returned') - Len(returned) = offset' - offset]_vars

C11_Witness == offset >= 2 /\ rdRes = "cancelled" /\ retried

\* C12: when done() answers true after an empty fetch the reader fetches
\* once more and does not ask done() again in that read: an empty fetch ends
\* the stream, a fetch with bytes returns them and leaves the reader ready
\* for a further read.
C12_OneMoreFetch ==
    /\ [](finalFetch => rdPc # "check")
    /\ [][/\ (rdPc = "check" /\ rdPc' \notin {"check", "failed"}
               /\ planStatus \in {"canceled", "errored", "finished", "unreachable"})
              => (rdPc' = "fetch" /\ finalFetch')
          /\ (finalFetch /\ FetchStep /\ lastFetch' = "ok")
              => IF offset' = offset
                 THEN rdRes' = "eof" /\ rdPc' = "eof"
                 ELSE rdRes' = "data" /\ rdPc' = "idle"]_vars

C12_Witness == finalFetch /\ rdPc = "idle" /\ rdRes = "data" /\ lastFetch = "ok"

\* C13: a transient fetch failure is retried, with no error returned, as
\* long as the read has made fewer than MaxAttempts attempts; the failure of
\* attempt MaxAttempts is returned as an error; a read never makes more.
C13_TransientRetry ==
    /\ [](attempts <= MaxAttempts /\ (InRead => attempts < MaxAttempts))
    /\ [][/\ (FetchStep /\ lastFetch' = "transient") => attempts' = attempts + 1
          /\ attempts' = attempts + 1 =>
                /\ lastFetch' = "transient"
                /\ offset' = offset
                /\ IF attempts' < MaxAttempts
                   THEN rdPc' = "wait" /\ rdRes' = rdRes
                   ELSE rdPc' = "failed" /\ rdRes' = "err"]_vars

C13_Witness ==
    /\ attempts = 2
    /\ rdPc = "idle"
    /\ rdRes = "data"
    /\ lastFetch = "ok"

\* C14: a fetch failure that is not transient ends the read with the error
\* at once: no retry, no further fetch, the offset as it was.
C14_FatalImmediate ==
    [][/\ (FetchStep /\ lastFetch' = "fatal") =>
             /\ rdPc' = "failed"
             /\ rdRes' = "err"
             /\ offset' = offset
             /\ returned' = returned
             /\ attempts' = attempts
       /\ rdPc = "failed" =>
             /\ rdPc' = "failed"
             /\ lastFetch' = lastFetch
             /\ offset' = offset]_vars

C14_Witness == rdPc = "failed" /\ lastFetch = "fatal" /\ offset >= 1

\* C15: a reader that is about to wait or retry when ctx is done does nothing
\* but return the cancellation error, and after that it never fetches again.
C15_Cancellation ==
    /\ [](rdRes = "cancelled" => (cancelled /\ rdPc = "failed"))
    /\ [][/\ (rdPc = "wait" /\ cancelled /\ rdPc' # "wait")
              => (rdPc' = "failed" /\ rdRes' = "cancelled")
          /\ rdRes = "cancelled"
              => (lastFetch' = lastFetch /\ offset' = offset /\ returned' = returned)]_vars

C15_Witness == rdRes = "cancelled" /\ offset >= 1 /\ polls >= 1

\* C16: while the plan is in no final status and the fetches are empty, the
\* read goes on waiting and fetching without returning; once the plan is in a
\* final status the reader waits no more for done() and a read that is under
\* way comes to an end, in an error only after a failure or a cancellation.
C16_WaitsThenEnds ==
    /\ [][/\ (rdPc = "check" /\ rdPc' \notin {"check", "failed"}
               /\ planStatus \notin {"canceled", "errored", "finished", "unreachable"})
              => rdPc' = "wait"
          /\ (rdPc = "check" /\ planStatus \in FinalStatuses) => rdPc' # "wait"
          /\ (rdPc = "wait" /\ ~cancelled /\ rdPc' # "wait") => rdPc' = "fetch"]_vars
    /\ [](rdPc = "failed" => (rdRes = "cancelled" \/ lastFetch \in {"transient", "fatal"}
                                \/ lastDone.err))
    /\ (planStatus \in FinalStatuses /\ InRead) ~> ~InRead

C16_Witness == rdRes = "eof" /\ polls >= 5 /\ lastFetch = "ok" /\ ~retried

\* C17: done() answers true exactly when the status it read is canceled,
\* errored, finished or unreachable, and false with the error when the read
\* of the plan failed.
C17_DonePredicate ==
    lastDone # NotAsked =>
        IF lastDone.read
        THEN /\ ~lastDone.err
             /\ lastDone.done =
                   (lastDone.status \in {"canceled", "errored", "finished", "unreachable"})
        ELSE lastDone.err /\ ~lastDone.done

C17_Witness ==
    /\ lastDone.read
    /\ lastDone.status = "policy_checking"
    /\ ~lastDone.done
    /\ rdPc = "wait"

\* C18: a subscription is dialed once, by Subscribe: no step after Subscribe
\* has returned dials again, neither after a dial failure nor after the
\* goroutine has failed.
C18_SingleDial ==
    /\ dials = (IF subRet = NotCalled THEN 0 ELSE 1)
    /\ (synth > 0 \/ dialErr) => dials = 1

C18_Witness == taskPc = "done" /\ synth = 1 /\ peer = "failed" /\ dials = 1

\* C19 as stated: every event received has a Type among the thirteen tags.
C19_TypeInClosedSet ==
    \A i \in 1..Len(received) : received[i].Type \in EventTypes

\* C19, amended: an event the goroutine forwards carries the type string and
\* the payload of the frame it was decoded from, whatever they are, and the
\* event it synthesizes carries the error tag; the consumer receives the
\* event as the goroutine holds it.
C19_TypeIsFrameType ==
    /\ [](taskPc = "sendErr" => taskEv.Type = EventError)
    /\ [][/\ (taskPc = "read" /\ taskPc' = "send") =>
                /\ wire # <<>>
                /\ taskEv'.Type = Head(wire).type
                /\ taskEv'.Payload = Head(wire).payload
          /\ received' # received => received' = Append(received, taskEv)]_vars

C19_Witness ==
    /\ received # <<>>
    /\ Last(received).Type = "bogus"
    /\ Last(received).Type \notin EventTypes

\* The events the goroutine makes itself.
Synthesized == {ReadErrorEvent, DecodeErrorEvent}

\* C20 as stated: every event of type error the consumer received was
\* synthesized by the goroutine, and is the last event received.
C20_ErrorTagReserved ==
    \A i \in 1..Len(received) :
        received[i].Type = EventError =>
            (received[i] \in Synthesized /\ i = Len(received) /\ TaskLeft)

\* C20, amended: an error event the goroutine synthesized is the last event
\* received; every other event of type error is the event of a frame that
\* carried this type, at its place among the decoded frames.
C20_SynthesizedErrorIsLast ==
    \A i \in 1..Len(received) :
        /\ received[i] \in Synthesized => (i = Len(received) /\ TaskLeft)
        /\ (received[i].Type = EventError /\ received[i] \notin Synthesized) =>
              (i <= Len(decoded) /\ decoded[i] = received[i])

C20_Witness ==
    /\ TaskLeft
    /\ Len(received) >= 3
    /\ received[1].Type = EventError
    /\ received[1] \notin Synthesized
    /\ Last(received) \in Synthesized

\* The events decoded from frames that the consumer has not received.
Undelivered == Len(decoded) - Len(Forwarded)

Blocked == taskPc \in {"send", "sendErr"}

\* C21: the channel has no buffer: at most one decoded event is undelivered,
\* and it is the one the goroutine is sending; while the goroutine is blocked
\* on its send it can neither read a frame nor return, and every step in
\* which the consumer receives nothing leaves it blocked with the same event,
\* the frames unread and the connection not released.
C21_Unbuffered ==
    /\ [](/\ Undelivered <= 1
          /\ (Undelivered = 1) = (taskPc = "send")
          /\ Blocked => (~ENABLED TaskRead /\ ~ENABLED TaskReturn))
    /\ [][(Blocked /\ received' = received) =>
             /\ taskPc' = taskPc
             /\ taskEv' = taskEv
             /\ decoded' = decoded
             /\ conn' = conn
             /\ Len(wire') >= Len(wire)]_vars

C21_Witness ==
    /\ taskPc = "send"
    /\ wire # <<>>
    /\ peer = "failed"
    /\ Len(received) >= 1
    /\ conn = "open"

\* C22: the connection is released by the goroutine's return and by nothing
\* else: it is released exactly when the goroutine has ended, it is open
\* whenever the goroutine reads or sends, and a Close() changes neither the
\* connection nor the goroutine.
C22_TaskOwnsConn ==
    /\ [](/\ (conn = "released") = (taskPc = "done")
          /\ taskPc \in {"read", "send", "sendErr", "return"} => conn = "open")
    /\ [][/\ conn' = "released" /\ conn # "released" =>
                /\ taskPc = "return"
                /\ taskPc' = "done"
                /\ closeRes' = closeRes
          /\ closeRes' # closeRes => (conn' = conn /\ taskPc' = taskPc)]_vars

C22_Witness ==
    /\ Len(closeRes) = 2
    /\ closeRes[1] = "nil"
    /\ taskPc = "read"
    /\ conn = "open"
    /\ wire # <<>>

LogsStep == calls' = calls + 1 /\ apiRet'.op = "Logs"

\* C24: plans.Logs returns an error, no reader and builds no done closure
\* when the plan ID is invalid (then without calling the client at all), when
\* the read of the plan fails, when the plan's log URL is empty and when it
\* does not parse. Otherwise it returns a reader with the parsed URL, the
\* caller's ctx and a done closure over the ID of that plan and that ctx,
\* after the one request that read the plan; and the closure, when called,
\* reads that plan with that ctx.
C24_LogsConstruction ==
    /\ [](\A d \in doneFor : validStringID(<<d.id>>) /\ d.ctx \in Ctxs)
    /\ [][/\ LogsStep =>
                LET r == apiRet'
                    valid == r.id # <<>> /\ \A i \in 1..Len(r.id) : r.id[i] \notin {"/", " "}
                IN  /\ ~valid => (built' = built /\ sentReqs' = sentReqs)
                    /\ (~valid \/ r.outcome # "ok" \/ r.url = ""
                          \/ r.url \in {"://archivist.tfe", "https://archivist.tfe/%zz"})
                          => r.err # "nil"
                    /\ r.err # "nil" => (r.reader = NoReader /\ doneFor' = doneFor)
                    /\ r.err = "nil" =>
                          /\ r.reader.logURL.Path = "/v1/object/dmF1"
                          /\ r.reader.logURL.Host \in {"", "archivist.tfe"}
                          /\ (r.reader.logURL.Host = "") = (r.url = "/v1/object/dmF1")
                          /\ r.reader.ctx = r.ctx
                          /\ r.reader.done = [id |-> r.id, ctx |-> r.ctx]
                          /\ doneFor' = doneFor \cup {r.reader.done}
                          /\ built' = built + 1
                          /\ sentReqs' = sentReqs + 1
                          /\ lastReq' = [method |-> "GET", path |-> <<"plans/", r.id, "">>,
                                         ctx |-> r.ctx]
          /\ (calls' = calls + 1 /\ apiRet'.op = "done") =>
                /\ [id |-> apiRet'.id, ctx |-> apiRet'.ctx] \in doneFor
                /\ lastReq' \in {NoRequest,
                                 [method |-> "GET", path |-> <<"plans/", apiRet'.id, "">>,
                                  ctx |-> apiRet'.ctx]}]_vars

C24_Witness ==
    /\ apiRet.op = "Logs"
    /\ apiRet.err = "invalid log URL"
    /\ apiRet.reader = NoReader
    /\ sentReqs = 2
    /\ Cardinality(doneFor) = 1

\* The operations of Runs that take a run ID.
RunOps == {"Read", "ReadWithOptions", "Apply", "Cancel", "ForceCancel", "Discard",
           "GetPlanFile", "UploadPlanFile", "UploadLogs"}

\* C26: an operation of Runs invoked with a run ID that is no valid string
\* identifier returns an error and has called neither newRequest nor do.
C26_RunIDValidated ==
    [][(/\ calls' = calls + 1
        /\ apiRet'.op \in RunOps
        /\ ~validStringID(<<apiRet'.id>>))
          => (apiRet'.err # "nil" /\ built' = built /\ sentReqs' = sentReqs)]_vars

Subscribed(i) == pRet[i].sub = "sub"

\* What belongs to the subscription of i: what its Subscribe returned, its
\* goroutine, its Close() results, its connection and its channel.
Own(i) ==
    <<pRet[i], pTask[i], pCloseRes[i],
      IF Subscribed(i) THEN pConn[pRet[i].conn] ELSE NoConn,
      IF Subscribed(i) THEN pChan[pRet[i].ch] ELSE NoChan>>

\* C25: two subscriptions never have the same connection or the same
\* channel; the goroutine of each works on the connection and the channel of
\* its own subscription; every event received from a subscription's C() was
\* read from that subscription's connection; and no step, a Close() and a
\* failure included, changes what belongs to two subscriptions.
C25_Independent ==
    /\ [](\A i, j \in Subs :
             (i # j /\ Subscribed(i) /\ Subscribed(j)) =>
                 (pRet[i].conn # pRet[j].conn /\ pRet[i].ch # pRet[j].ch))
    /\ [](\A i \in Subs :
             Subscribed(i) =>
                 /\ pTask[i].pc # "none"
                 /\ pTask[i].c = pRet[i].conn
                 /\ pTask[i].ch = pRet[i].ch
                 /\ \A n \in 1..Len(pChan[pRet[i].ch].received) :
                       LET e == pChan[pRet[i].ch].received[n] IN
                       /\ e.from = pRet[i].conn
                       /\ e.by = i
                       /\ e.ev.Type # EventError => e.ev.Payload = pRet[i].conn)
    /\ [][\A i, j \in Subs : i # j => (Own(i)' = Own(i) \/ Own(j)' = Own(j))]_vars

C25_Witness ==
    /\ Subscribed("s1")
    /\ Subscribed("s2")
    /\ pTask["s1"].pc = "done"
    /\ pCloseRes["s1"] # <<>>
    /\ pConn[pRet["s1"].conn].state = "released"
    /\ pTask["s2"].pc = "read"
    /\ pConn[pRet["s2"].conn].state = "open"
    /\ pConn[pRet["s2"].conn].peer = "up"
    /\ Len(pChan[pRet["s2"].ch].received) >= 1
    /\ pCloseRes["s2"] = <<>>

====
